---- MODULE Spec2Model ----
(***************************************************************************)
(* The icon-atlas example of the OpenGL playground (src/textures/icons.c): *)
(* the key-driven icon index, the main loop, and the vertex shader that    *)
(* turns (icon id, icons per side) into texture coordinates.  Startup and  *)
(* shutdown are modelled for all five GLFW examples (SpecExamples).        *)
(*                                                                         *)
(* GLuint / GLSL uint values are 32 bits wide.  TLC's integers are 32-bit  *)
(* signed, so a uint is kept as two 16-bit limbs <<hi, lo>> and all        *)
(* arithmetic on it is done modulo 2^32 on the limbs.                      *)
(*                                                                         *)
(* GLSL float values are IEEE-754 single precision.  A non-negative float  *)
(* is kept as <<m, e>>, meaning m * 2^e with m odd (or <<0, 0>> for zero), *)
(* and every operation rounds its exact result to 24 significant bits,     *)
(* ties to even.  The shader only ever handles non-negative values on the  *)
(* texture-coordinate path.  When 1/sideCount is a power of two (as for    *)
(* the program's 4 icons per side) and the index is below 2^24, every      *)
(* operation of the shader is exact.                                       *)
(***************************************************************************)
EXTENDS Integers, Sequences, FiniteSets, TLC

\* ---------------------------------------------------------------- bounds

\* Largest icons-per-side value the shader is evaluated with in SpecRect.
MaxSide == 8
\* How many indices past the last valid one (sideCount^2 - 1) SpecRect draws.
MaxPast == 2
\* Right presses are followed up to this index, Left presses down to
\* 2^32 - MaxWrap (the wrapped region below zero).
MaxIndex == 18
MaxWrap == 2

\* ------------------------------------------------- 32-bit unsigned values

Limb == 2^16

\* The uint with the (small) value n.
U32(n) == <<n \div Limb, n % Limb>>

\* The value of a uint that is known to be below 2^31.
UVal(a) == a[1] * Limb + a[2]

\* Two faulty ones: ++ that adds two, and -- that bounces off zero.
UInc_Twice(a) ==
    IF a[2] >= Limb - 2 THEN <<(a[1] + 1) % Limb, a[2] + 2 - Limb>> ELSE <<a[1], a[2] + 2>>

UDec_Reflecting(a) ==
    IF a = <<0, 0>> THEN <<0, 1>>
    ELSE IF a[2] = 0 THEN <<a[1] - 1, Limb - 1>> ELSE <<a[1], a[2] - 1>>

\* a + 1 and a - 1 modulo 2^32 (GLuint ++ and --).
UInc(a) ==
    IF a[2] = Limb - 1 THEN <<(a[1] + 1) % Limb, 0>> ELSE <<a[1], a[2] + 1>>

UDec(a) ==
    IF a[2] = 0 THEN <<(a[1] + Limb - 1) % Limb, Limb - 1>> ELSE <<a[1], a[2] - 1>>

\* a - b modulo 2^32.
USub(a, b) ==
    LET borrow == IF a[2] < b[2] THEN 1 ELSE 0
    IN  <<(a[1] - b[1] - borrow + 2 * Limb) % Limb, (a[2] - b[2] + Limb) % Limb>>

\* a / d for a uint a and a divisor 0 < d < 2^15 (unsigned division truncates).
UDivSmall(a, d) ==
    LET r == a[1] % d
    IN  <<a[1] \div d, (r * Limb + a[2]) \div d>>

\* ----------------------------------------------------- exact naturals

\* The exact results of float operations need up to 48 bits and more; they
\* are kept as little-endian sequences of 12-bit digits (<<>> is zero, the
\* last digit is never 0).
Digit == 2^12

RECURSIVE BitLen(_)
BitLen(m) == IF m = 0 THEN 0 ELSE 1 + BitLen(m \div 2)

RECURSIVE BN(_)
BN(n) == IF n = 0 THEN <<>> ELSE <<n % Digit>> \o BN(n \div Digit)

RECURSIVE BNTrim(_)
BNTrim(a) ==
    IF a = <<>> THEN <<>>
    ELSE IF a[Len(a)] = 0 THEN BNTrim(SubSeq(a, 1, Len(a) - 1))
    ELSE a

RECURSIVE BNAdd(_, _, _)
BNAdd(a, b, carry) ==
    IF a = <<>> /\ b = <<>> THEN (IF carry = 0 THEN <<>> ELSE <<carry>>)
    ELSE LET x == IF a = <<>> THEN 0 ELSE Head(a)
             y == IF b = <<>> THEN 0 ELSE Head(b)
             t == x + y + carry
         IN  <<t % Digit>> \o BNAdd(IF a = <<>> THEN <<>> ELSE Tail(a),
                                    IF b = <<>> THEN <<>> ELSE Tail(b),
                                    t \div Digit)

\* a - b for a >= b, digit by digit; the caller trims the result.
RECURSIVE BNSubDigits(_, _, _)
BNSubDigits(a, b, borrow) ==
    IF a = <<>> THEN <<>>
    ELSE LET y == IF b = <<>> THEN 0 ELSE Head(b)
             t == Head(a) - y - borrow
         IN  <<IF t < 0 THEN t + Digit ELSE t>>
                \o BNSubDigits(Tail(a), IF b = <<>> THEN <<>> ELSE Tail(b),
                               IF t < 0 THEN 1 ELSE 0)

BNSub(a, b) == BNTrim(BNSubDigits(a, b, 0))

\* a * d + carry for one digit d > 0.
RECURSIVE BNMulDigit(_, _, _)
BNMulDigit(a, d, carry) ==
    IF a = <<>> THEN (IF carry = 0 THEN <<>> ELSE <<carry>>)
    ELSE LET t == Head(a) * d + carry
         IN  <<t % Digit>> \o BNMulDigit(Tail(a), d, t \div Digit)

RECURSIVE BNMul(_, _)
BNMul(a, b) ==
    IF a = <<>> \/ b = <<>> THEN <<>>
    ELSE LET rest == BNMul(a, Tail(b))
         IN  BNAdd(IF Head(b) = 0 THEN <<>> ELSE BNMulDigit(a, Head(b), 0),
                   IF rest = <<>> THEN <<>> ELSE <<0>> \o rest,
                   0)

\* a * 2^k.
BNShl(a, k) ==
    IF a = <<>> THEN <<>>
    ELSE [i \in 1..(k \div 12) |-> 0] \o BNMulDigit(a, 2^(k % 12), 0)

BNBitLen(a) == IF a = <<>> THEN 0 ELSE 12 * (Len(a) - 1) + BitLen(a[Len(a)])

\* Bit j (from 0) of a, and whether all the bits below bit j are 0.
BNBit(a, j) == (a[j \div 12 + 1] \div 2^(j % 12)) % 2

BNLowZero(a, j) ==
    /\ \A i \in 1..(j \div 12) : a[i] = 0
    /\ j % 12 = 0 \/ a[j \div 12 + 1] % 2^(j % 12) = 0

\* floor(a / 2^k), for a result below 2^31.
RECURSIVE BNShrFrom(_, _, _)
BNShrFrom(a, k, i) ==
    IF i > Len(a) THEN 0
    ELSE (IF 12 * (i - 1) >= k THEN a[i] * 2^(12 * (i - 1) - k)
          ELSE a[i] \div 2^(k - 12 * (i - 1)))
         + BNShrFrom(a, k, i + 1)

BNShr(a, k) == BNShrFrom(a, k, k \div 12 + 1)

\* ------------------------------------------------ single-precision floats

RECURSIVE Norm(_, _)
Norm(m, e) ==
    IF m = 0 THEN <<0, 0>>
    ELSE IF m % 2 = 0 THEN Norm(m \div 2, e + 1)
    ELSE <<m, e>>

\* Round the exact value a * 2^e to 24 significant bits, ties to even.
Round(a, e) ==
    LET len == BNBitLen(a)
    IN  IF len <= 24 THEN Norm(BNShr(a, 0), e)
        ELSE LET k  == len - 24
                 q  == BNShr(a, k)
                 up == /\ BNBit(a, k - 1) = 1
                       /\ ~BNLowZero(a, k - 1) \/ q % 2 = 1
             IN  Norm(IF up THEN q + 1 ELSE q, e + k)

FZero == <<0, 0>>
FOne == <<1, 0>>

\* The float nearest to a non-negative integer.
FInt(n) == Round(BN(n), 0)

\* uint -> float conversion (rounds when the value needs more than 24 bits).
UintToFloat(a) == Round(BNAdd(BNShl(BN(a[1]), 16), BN(a[2]), 0), 0)

\* The exact sum of x = <<a, e>> and y = <<a, e>> (a an exact natural), rounded.
AddRound(x, y) ==
    LET e0 == IF x[2] < y[2] THEN x[2] ELSE y[2]
    IN  Round(BNAdd(BNShl(x[1], x[2] - e0), BNShl(y[1], y[2] - e0), 0), e0)

FAdd(a, b) == AddRound(<<BN(a[1]), a[2]>>, <<BN(b[1]), b[2]>>)

FMul(a, b) == Round(BNMul(BN(a[1]), BN(b[1])), a[2] + b[2])

\* a * b + c with a single rounding (a contracted multiply-add).
FMulAdd(a, b, c) ==
    AddRound(<<BNMul(BN(a[1]), BN(b[1])), a[2] + b[2]>>, <<BN(c[1]), c[2]>>)

\* a - b for a >= b.
FSub(a, b) ==
    LET e0 == IF a[2] < b[2] THEN a[2] ELSE b[2]
    IN  Round(BNSub(BNShl(BN(a[1]), a[2] - e0), BNShl(BN(b[1]), b[2] - e0)), e0)

\* Long division: quotient bits of r/d are appended until q has 26 bits.
RECURSIVE DivBits(_, _, _, _)
DivBits(q, r, d, sh) ==
    IF BitLen(q) >= 26 THEN <<q, r, sh>>
    ELSE DivBits(2 * q + (2 * r) \div d, (2 * r) % d, d, sh + 1)

\* a / b for b # 0, correctly rounded: 26 quotient bits and one more bit that
\* says whether a remainder is left.
FDiv(a, b) ==
    IF a[1] = 0 THEN FZero
    ELSE LET qr == DivBits(a[1] \div b[1], a[1] % b[1], b[1], 0)
         IN  Round(BN(2 * qr[1] + (IF qr[2] # 0 THEN 1 ELSE 0)),
                   a[2] - b[2] - qr[3] - 1)

FFloor(a) ==
    IF a[2] >= 0 THEN a
    ELSE IF 0 - a[2] >= 24 THEN FZero
    ELSE Norm(a[1] \div 2^(0 - a[2]), 0)

\* GLSL mod(x, y) = x - y * floor(x / y).
FMod(x, y) == FSub(x, FMul(y, FFloor(FDiv(x, y))))

\* Order on floats: a < b, a <= b.
FLess(a, b) ==
    LET e0 == IF a[2] < b[2] THEN a[2] ELSE b[2]
        ta == BitLen(a[1]) + a[2]
        tb == BitLen(b[1]) + b[2]
    IN  IF a[1] = 0 THEN b[1] # 0
        ELSE IF b[1] = 0 THEN FALSE
        ELSE IF ta # tb THEN ta < tb
        ELSE a[1] * 2^(a[2] - e0) < b[1] * 2^(b[2] - e0)

FLeq(a, b) == a = b \/ FLess(a, b)


\* ------------------------------------------------------ the vertex shader

\* float square_side = float(1)/float(icon_id.y);
square_side(icon) == FDiv(FInt(1), UintToFloat(icon[2]))

\* A faulty col: the quotient taken where the remainder is meant.
col_Quotient(icon) == UintToFloat(UDivSmall(icon[1], UVal(icon[2])))

\* mod(icon_id.x, icon_id.y): both uints are converted to float first.
col(icon) == FMod(UintToFloat(icon[1]), UintToFloat(icon[2]))

\* icon_id.x/icon_id.y: unsigned integer division.
row(icon) == UDivSmall(icon[1], UVal(icon[2]))

\* Two faulty invRow: the "- uint(1)" forgotten; the row not inverted at all.
invRow_NoMinusOne(icon) == USub(icon[2], row(icon))
invRow_NotInverted(icon) == row(icon)

\* icon_id.y-uint(1) - icon_id.x/icon_id.y: unsigned, so it wraps below zero.
invRow(icon) == USub(USub(icon[2], U32(1)), row(icon))

\* a * square_side + t * square_side; the compiler may contract the first
\* product and the sum into one multiply-add (t * square_side is exact for
\* t in {0, 1}, so fuseing the second product changes nothing).
Corner(a, t, s, fuse) ==
    IF fuse THEN FMulAdd(a, s, FMul(t, s)) ELSE FAdd(FMul(a, s), FMul(t, s))

\* vs_tex_coord for one vertex with texture attribute v_tex = <<x, y>>.
vs_main(icon, v_tex, fuse) ==
    LET s == square_side(icon)
    IN  << Corner(col(icon), v_tex[1], s, fuse),
           Corner(UintToFloat(invRow(icon)), v_tex[2], s, fuse) >>

\* The texture-coordinate half of quad_data, one pair per vertex.
quad_tex == << <<FZero, FOne>>, <<FOne, FOne>>, <<FOne, FZero>>, <<FZero, FZero>> >>

\* glDrawArrays(GL_TRIANGLE_FAN, 0, 4): the shader runs once per vertex.
DrawQuad(icon, fuse) ==
    [v \in 1..4 |-> vs_main(icon, quad_tex[v], fuse)]

\* Values a division by zero may leave in a coordinate (unspecified in GLSL).
Unspecified == {FZero, FOne, <<1, 30>>}

\* The rectangle the quad samples: the corner with v_tex = (0,0) and the
\* corner with v_tex = (1,1).
rectForIndex(side, index, fuse) ==
    LET icon == <<U32(index), U32(side)>>
        lo   == vs_main(icon, <<FZero, FZero>>, fuse)
        hi   == vs_main(icon, <<FOne, FOne>>, fuse)
    IN  [uMin |-> lo[1], vMin |-> lo[2], uMax |-> hi[1], vMax |-> hi[2]]

\* ------------------------------------------------------------ the program

VARIABLES
    example,       \* which of the GLFW examples this process is
    pc,            \* where main() is
    icon_id,       \* GLuint icon_id[2]: <<icon id, icons per side>>
    should_close,  \* the window's should-close flag
    uniform,       \* the value of the shader's uniform uvec2 icon_id
    vs_tex_coord,  \* the shader's output for the quad drawn last (<<>>: none yet)
    contract,      \* whether this build's shader compiler contracts a*b + c
    glfw,          \* "off", "on", "terminated"
    window,        \* "none", "open", "destroyed"
    exit_status,   \* <<>> while running, <<status>> once exit() was called
    tex_uploads,   \* how many times glTexImage2D has run
    buf_uploads,   \* how many times glBufferData has run
    shaders,       \* the shader objects created and not deleted
    calls          \* the failures detected and the upload and shutdown calls
                   \* made so far, in order

vars == <<example, pc, icon_id, should_close, uniform, vs_tex_coord, contract,
          glfw, window, exit_status, tex_uploads, buf_uploads, shaders, calls>>

\* The programs that open their window with GLFW.
Examples ==
    {"icons", "image_texture", "checkerboard_texture", "font_character",
     "minimal_glew_glfw"}

GLFW_KEY_ESCAPE == 256
GLFW_KEY_RIGHT == 262
GLFW_KEY_LEFT == 263
GLFW_PRESS == 1
Char0 == 48
Char9 == 57

\* The keys and key actions delivered to key_cb: the digits, their two
\* neighbours in ASCII, and the three named keys; release (0), press (1) and
\* repeat (2).
Keys == ((Char0 - 1)..(Char9 + 1)) \cup {GLFW_KEY_ESCAPE, GLFW_KEY_RIGHT, GLFW_KEY_LEFT}
KeyActions == {GLFW_PRESS - 1, GLFW_PRESS, GLFW_PRESS + 1}

\* The icon ids the model follows: 0..MaxIndex and the top MaxWrap values
\* of the 32-bit range.
Followed(a) ==
    \/ a[1] = 0 /\ a[2] <= MaxIndex
    \/ a[1] = Limb - 1 /\ a[2] >= Limb - MaxWrap

\* The state at the start of main(), for one of the examples.
InitOf(ex) ==
    /\ example = ex
    /\ pc = "glfwInit"
    /\ icon_id = <<U32(0), U32(4)>>
    /\ should_close = FALSE
    /\ uniform = <<U32(0), U32(0)>>
    /\ vs_tex_coord = <<>>
    /\ contract \in BOOLEAN
    /\ glfw = "off"
    /\ window = "none"
    /\ exit_status = <<>>
    /\ tex_uploads = 0
    /\ buf_uploads = 0
    /\ shaders = {}
    /\ calls = <<>>

Init == InitOf("icons")

\* exit(status_code), after the calls of log.
Exit(log, status) ==
    /\ pc' = "exited"
    /\ exit_status' = <<status>>
    /\ calls' = calls \o log \o <<"exit">>

\* A faulty shutdown_glfw_and_exit() that leaves the window alone.
shutdown_glfw_and_exit_NoDestroy(log, status) ==
    /\ glfw' = "terminated"
    /\ UNCHANGED window
    /\ Exit(log \o <<"glfwTerminate">>, status)

\* shutdown_glfw_and_exit(status_code), after the calls of log.
shutdown_glfw_and_exit(log, status) ==
    /\ window' = "destroyed"
    /\ glfw' = "terminated"
    /\ Exit(log \o <<"glfwDestroyWindow", "glfwTerminate">>, status)

GlfwInit(ok) ==
    /\ pc = "glfwInit"
    /\ IF ok
       THEN /\ glfw' = "on"
            /\ pc' = "createWindow"
            /\ UNCHANGED <<exit_status, calls>>
       ELSE /\ Exit(<<"failed: glfwInit">>, -1)
            /\ UNCHANGED glfw
    /\ UNCHANGED <<example, icon_id, should_close, uniform, vs_tex_coord,
                   contract, window, tex_uploads, buf_uploads, shaders>>

CreateWindow(ok) ==
    /\ pc = "createWindow"
    /\ IF ok
       THEN /\ window' = "open"
            /\ pc' = "glewInit"
            /\ UNCHANGED <<glfw, exit_status, calls>>
       ELSE /\ glfw' = "terminated"
            /\ Exit(<<"failed: glfwCreateWindow", "glfwTerminate">>, -1)
            /\ UNCHANGED window
    /\ UNCHANGED <<example, icon_id, should_close, uniform, vs_tex_coord,
                   contract, tex_uploads, buf_uploads, shaders>>

\* A faulty main() that goes on after glewInit() failed.
GlewInit_GoesOn(ok) ==
    /\ pc = "glewInit"
    /\ pc' = "init"
    /\ calls' = IF ok THEN calls ELSE calls \o <<"failed: glewInit">>
    /\ UNCHANGED <<example, icon_id, should_close, uniform, vs_tex_coord,
                   contract, glfw, window, exit_status, tex_uploads,
                   buf_uploads, shaders>>

GlewInit(ok) ==
    /\ pc = "glewInit"
    /\ IF ok
       THEN /\ pc' = "init"
            /\ UNCHANGED <<glfw, window, exit_status, calls>>
       ELSE shutdown_glfw_and_exit(<<"failed: glewInit">>, -1)
    /\ UNCHANGED <<example, icon_id, should_close, uniform, vs_tex_coord,
                   contract, tex_uploads, buf_uploads, shaders>>

\* A faulty compile_shader() that keeps a shader that failed to compile.
compile_shader_NoDelete(shader, ok, live) == live

\* compile_shader(): the undeleted shader objects after it ran on shader,
\* live being the undeleted ones before; a shader that fails to compile is
\* deleted.
compile_shader(shader, ok, live) == IF ok THEN live ELSE live \ {shader}

\* What the init() of each example does.
HasTexCoords(ex) == ex # "minimal_glew_glfw"
AttrFailureReturns(ex) == ex # "icons"
DecodesImage(ex) == ex \in {"icons", "image_texture"}
UploadsTextureInInit(ex) ==
    ex \in {"icons", "image_texture", "checkerboard_texture"}

\* What a failed lodepng_decode32_file() leads to: width, height and
\* image_data are then passed to glTexImage2D() and free() as they are, and
\* the program either goes on with an undefined texture or is killed.
DecodeOutcomes == {"ok", "error, undefined texture", "error, killed"}

\* The texture part of init(), after the calls of log.
load_icons_texture(ex, log, decode) ==
    IF ~UploadsTextureInInit(ex)
    THEN [killed |-> FALSE, log |-> log]
    ELSE IF DecodesImage(ex) /\ decode # "ok"
    THEN IF decode = "error, killed"
         THEN [killed |-> TRUE, log |-> log \o <<"failed: decode">>]
         ELSE [killed |-> FALSE,
               log |-> log \o <<"failed: decode", "glTexImage2D">>]
    ELSE [killed |-> FALSE, log |-> log \o <<"glTexImage2D">>]

\* init() of example ex: whether it returned, what it returned, the shader
\* objects it left undeleted, and the failures it detected and the uploads
\* it made, in order.
init(ex, vs_ok, fs_ok, link_ok, vpos_ok, vtex_ok, decode) ==
    LET failed(what, live) ==
            [killed |-> FALSE, ret |-> FALSE, shaders |-> live,
             log |-> <<what>>]
        vpos_log == IF vpos_ok THEN <<>> ELSE <<"failed: v_pos">>
        vtex_log == IF vtex_ok \/ ~HasTexCoords(ex)
                    THEN <<>> ELSE <<"failed: v_tex">>
        t == load_icons_texture(ex, vpos_log \o vtex_log, decode)
    IN  IF ~vs_ok
        THEN failed("failed: compile vertex shader",
                    compile_shader("vs", FALSE, {"vs"}))
        ELSE IF ~fs_ok
        THEN failed("failed: compile fragment shader",
                    compile_shader("fs", FALSE,
                                   compile_shader("vs", TRUE, {"vs"}) \cup {"fs"}))
        ELSE IF ~link_ok
        THEN failed("failed: link", {})
        ELSE IF ~vpos_ok /\ AttrFailureReturns(ex)
        THEN failed("failed: v_pos", {})
        ELSE IF vtex_log # <<>> /\ AttrFailureReturns(ex)
        THEN failed("failed: v_tex", {})
        ELSE IF t.killed
        THEN [killed |-> TRUE, ret |-> FALSE, shaders |-> {}, log |-> t.log]
        ELSE [killed |-> FALSE, ret |-> TRUE, shaders |-> {},
              log |-> t.log \o <<"glBufferData">>]

\* How many times call e occurs in log.
Count(log, e) == Cardinality({i \in 1..Len(log) : log[i] = e})

\* if(!init()) shutdown_glfw_and_exit(-1)
InitGL(vs_ok, fs_ok, link_ok, vpos_ok, vtex_ok, decode) ==
    /\ pc = "init"
    /\ LET r == init(example, vs_ok, fs_ok, link_ok, vpos_ok, vtex_ok, decode)
       IN  /\ shaders' = r.shaders
           /\ tex_uploads' = tex_uploads + Count(r.log, "glTexImage2D")
           /\ buf_uploads' = buf_uploads + Count(r.log, "glBufferData")
           /\ IF r.killed
              THEN /\ pc' = "killed"
                   /\ calls' = calls \o r.log
                   /\ UNCHANGED <<glfw, window, exit_status>>
              ELSE IF r.ret
              THEN /\ pc' = IF example = "font_character"
                            THEN "init_freetype" ELSE "loop"
                   /\ calls' = calls \o r.log
                   /\ UNCHANGED <<glfw, window, exit_status>>
              ELSE shutdown_glfw_and_exit(r.log, -1)
    /\ UNCHANGED <<example, icon_id, should_close, uniform, vs_tex_coord,
                   contract>>

\* init_freetype() of font_character.c
init_freetype(lib_ok, face_ok) ==
    /\ pc = "init_freetype"
    /\ IF ~lib_ok
       THEN shutdown_glfw_and_exit(<<"failed: FT_Init_FreeType">>, -1)
       ELSE IF ~face_ok
       THEN shutdown_glfw_and_exit(<<"failed: FT_New_Face">>, -1)
       ELSE /\ pc' = "load_char_texture"
            /\ UNCHANGED <<glfw, window, exit_status, calls>>
    /\ UNCHANGED <<example, icon_id, should_close, uniform, vs_tex_coord,
                   contract, tex_uploads, buf_uploads, shaders>>

\* load_char_texture() of font_character.c
load_char_texture(slot_ok) ==
    /\ pc = "load_char_texture"
    /\ IF ~slot_ok
       THEN /\ shutdown_glfw_and_exit(<<"failed: glyph">>, -1)
            /\ UNCHANGED tex_uploads
       ELSE /\ tex_uploads' = tex_uploads + 1
            /\ calls' = calls \o <<"glTexImage2D">>
            /\ pc' = "loop"
            /\ UNCHANGED <<glfw, window, exit_status>>
    /\ UNCHANGED <<example, icon_id, should_close, uniform, vs_tex_coord,
                   contract, buf_uploads, shaders>>

\* A faulty loop that does not look at the should-close flag.
LoopCheck_IgnoringFlag ==
    /\ pc = "loop"
    /\ pc' = "display"
    /\ UNCHANGED <<example, icon_id, should_close, uniform, vs_tex_coord,
                   contract, glfw, window, exit_status, tex_uploads,
                   buf_uploads, shaders, calls>>

\* while (!glfwWindowShouldClose(window)) ... shutdown_glfw_and_exit(0)
LoopCheck ==
    /\ pc = "loop"
    /\ IF should_close
       THEN shutdown_glfw_and_exit(<<>>, 0)
       ELSE /\ pc' = "display"
            /\ UNCHANGED <<glfw, window, exit_status, calls>>
    /\ UNCHANGED <<example, icon_id, should_close, uniform, vs_tex_coord,
                   contract, tex_uploads, buf_uploads, shaders>>

\* Three faulty display(): one that uploads the texture again, one that
\* advances the icon id, and one that replaces an icon id past the last icon
\* of the texture by 0.
Display_Reuploading ==
    /\ pc = "display"
    /\ example = "icons"
    /\ uniform' = icon_id
    /\ vs_tex_coord' = DrawQuad(icon_id, contract)
    /\ tex_uploads' = tex_uploads + 1
    /\ pc' = "swap"
    /\ UNCHANGED <<example, icon_id, should_close, contract, glfw, window,
                   exit_status, buf_uploads, shaders, calls>>

Display_Advancing ==
    /\ pc = "display"
    /\ example = "icons"
    /\ uniform' = icon_id
    /\ vs_tex_coord' = DrawQuad(icon_id, contract)
    /\ icon_id' = <<UInc(icon_id[1]), icon_id[2]>>
    /\ pc' = "swap"
    /\ UNCHANGED <<example, should_close, contract, glfw, window,
                   exit_status, tex_uploads, buf_uploads, shaders, calls>>

Display_Rejecting ==
    /\ pc = "display"
    /\ example = "icons"
    /\ uniform' = IF icon_id[1][1] = 0 /\ icon_id[1][2] < UVal(icon_id[2]) * UVal(icon_id[2])
                  THEN icon_id ELSE <<U32(0), icon_id[2]>>
    /\ vs_tex_coord' = DrawQuad(uniform', contract)
    /\ pc' = "swap"
    /\ UNCHANGED <<example, icon_id, should_close, contract, glfw, window,
                   exit_status, tex_uploads, buf_uploads, shaders, calls>>

\* display() of icons.c: upload icon_id to the uniform, then draw the quad
\* with it.
Display ==
    /\ pc = "display"
    /\ example = "icons"
    /\ uniform' = icon_id
    /\ IF icon_id[2] = U32(0)
       THEN \E u \in Unspecified, v \in Unspecified :
                vs_tex_coord' = [i \in 1..4 |-> <<u, v>>]
       ELSE vs_tex_coord' = DrawQuad(icon_id, contract)
    /\ pc' = "swap"
    /\ UNCHANGED <<example, icon_id, should_close, contract, glfw, window,
                   exit_status, tex_uploads, buf_uploads, shaders, calls>>

\* display() of the other examples: the vertex shader passes v_tex on, and
\* the one of minimal_glew_glfw.c has no texture coordinates.
display_plain ==
    /\ pc = "display"
    /\ example # "icons"
    /\ vs_tex_coord' = IF HasTexCoords(example)
                       THEN [v \in 1..4 |-> quad_tex[v]] ELSE vs_tex_coord
    /\ pc' = "swap"
    /\ UNCHANGED <<example, icon_id, should_close, uniform, contract, glfw,
                   window, exit_status, tex_uploads, buf_uploads, shaders,
                   calls>>

SwapBuffers ==
    /\ pc = "swap"
    /\ pc' = "poll"
    /\ UNCHANGED <<example, icon_id, should_close, uniform, vs_tex_coord,
                   contract, glfw, window, exit_status, tex_uploads,
                   buf_uploads, shaders, calls>>

\* Two faulty key_cb: one that stores the digit in icon_id[1], and one that
\* takes every key action for a press.
key_cb_DigitIntoSide(key, action) ==
    /\ pc = "poll"
    /\ example = "icons"
    /\ should_close' =
          IF key = GLFW_KEY_ESCAPE /\ action = GLFW_PRESS THEN TRUE ELSE should_close
    /\ icon_id' =
          IF key >= Char0 /\ key <= Char9 /\ action = GLFW_PRESS
          THEN <<icon_id[1], U32(key - Char0)>>
          ELSE IF key = GLFW_KEY_RIGHT /\ action = GLFW_PRESS
          THEN <<UInc(icon_id[1]), icon_id[2]>>
          ELSE IF key = GLFW_KEY_LEFT /\ action = GLFW_PRESS
          THEN <<UDec(icon_id[1]), icon_id[2]>>
          ELSE icon_id
    /\ Followed(icon_id'[1])
    /\ UNCHANGED <<example, pc, uniform, vs_tex_coord, contract, glfw, window,
                   exit_status, tex_uploads, buf_uploads, shaders, calls>>

key_cb_AnyAction(key, action) ==
    /\ pc = "poll"
    /\ example = "icons"
    /\ should_close' =
          IF key = GLFW_KEY_ESCAPE /\ action = GLFW_PRESS THEN TRUE ELSE should_close
    /\ icon_id' =
          IF key >= Char0 /\ key <= Char9
          THEN <<U32(key - Char0), icon_id[2]>>
          ELSE IF key = GLFW_KEY_RIGHT
          THEN <<UInc(icon_id[1]), icon_id[2]>>
          ELSE IF key = GLFW_KEY_LEFT
          THEN <<UDec(icon_id[1]), icon_id[2]>>
          ELSE icon_id
    /\ Followed(icon_id'[1])
    /\ UNCHANGED <<example, pc, uniform, vs_tex_coord, contract, glfw, window,
                   exit_status, tex_uploads, buf_uploads, shaders, calls>>

\* A faulty key_cb that is also called while display() and the buffer swap
\* run.
key_cb_AnyTime(key, action) ==
    /\ pc \in {"display", "swap", "poll"}
    /\ example = "icons"
    /\ should_close' =
          IF key = GLFW_KEY_ESCAPE /\ action = GLFW_PRESS THEN TRUE ELSE should_close
    /\ icon_id' =
          IF key >= Char0 /\ key <= Char9 /\ action = GLFW_PRESS
          THEN <<U32(key - Char0), icon_id[2]>>
          ELSE IF key = GLFW_KEY_RIGHT /\ action = GLFW_PRESS
          THEN <<UInc(icon_id[1]), icon_id[2]>>
          ELSE IF key = GLFW_KEY_LEFT /\ action = GLFW_PRESS
          THEN <<UDec(icon_id[1]), icon_id[2]>>
          ELSE icon_id
    /\ Followed(icon_id'[1])
    /\ UNCHANGED <<example, pc, uniform, vs_tex_coord, contract, glfw, window,
                   exit_status, tex_uploads, buf_uploads, shaders, calls>>

\* key_cb of icons.c, called by glfwPollEvents() for one pending key event.
key_cb(key, action) ==
    /\ pc = "poll"
    /\ example = "icons"
    /\ should_close' =
          IF key = GLFW_KEY_ESCAPE /\ action = GLFW_PRESS THEN TRUE ELSE should_close
    /\ icon_id' =
          IF key >= Char0 /\ key <= Char9 /\ action = GLFW_PRESS
          THEN <<U32(key - Char0), icon_id[2]>>
          ELSE IF key = GLFW_KEY_RIGHT /\ action = GLFW_PRESS
          THEN <<UInc(icon_id[1]), icon_id[2]>>
          ELSE IF key = GLFW_KEY_LEFT /\ action = GLFW_PRESS
          THEN <<UDec(icon_id[1]), icon_id[2]>>
          ELSE icon_id
    /\ Followed(icon_id'[1])
    /\ UNCHANGED <<example, pc, uniform, vs_tex_coord, contract, glfw, window,
                   exit_status, tex_uploads, buf_uploads, shaders, calls>>

\* key_cb of the other examples.
key_cb_escape(key, action) ==
    /\ pc = "poll"
    /\ example # "icons"
    /\ should_close' =
          IF key = GLFW_KEY_ESCAPE /\ action = GLFW_PRESS THEN TRUE ELSE should_close
    /\ UNCHANGED <<example, pc, icon_id, uniform, vs_tex_coord, contract,
                   glfw, window, exit_status, tex_uploads, buf_uploads,
                   shaders, calls>>

\* glfwPollEvents() returns once the pending events are handled.
PollReturn ==
    /\ pc = "poll"
    /\ pc' = "loop"
    /\ UNCHANGED <<example, icon_id, should_close, uniform, vs_tex_coord,
                   contract, glfw, window, exit_status, tex_uploads,
                   buf_uploads, shaders, calls>>

\* main() of icons.c
Next ==
    \/ \E ok \in BOOLEAN : GlfwInit(ok)
    \/ \E ok \in BOOLEAN : CreateWindow(ok)
    \/ \E ok \in BOOLEAN : GlewInit(ok)
    \/ \E vs_ok \in BOOLEAN, fs_ok \in BOOLEAN, link_ok \in BOOLEAN,
          vpos_ok \in BOOLEAN, vtex_ok \in BOOLEAN, decode \in DecodeOutcomes :
          InitGL(vs_ok, fs_ok, link_ok, vpos_ok, vtex_ok, decode)
    \/ LoopCheck
    \/ Display
    \/ SwapBuffers
    \/ \E key \in Keys, action \in KeyActions : key_cb(key, action)
    \/ PollReturn

Spec == Init /\ [][Next]_vars

\* main() of any of the GLFW examples
InitExamples == \E ex \in Examples : InitOf(ex)

NextExamples ==
    \/ Next
    \/ \E lib_ok \in BOOLEAN, face_ok \in BOOLEAN : init_freetype(lib_ok, face_ok)
    \/ \E slot_ok \in BOOLEAN : load_char_texture(slot_ok)
    \/ display_plain
    \/ \E key \in Keys, action \in KeyActions : key_cb_escape(key, action)

SpecExamples == InitExamples /\ [][NextExamples]_vars

\* ------------------------------------ the shader as a function of its uniform

\* The <<index, icons per side>> pairs the shader is evaluated on: every side
\* in 0..MaxSide with every index up to MaxPast past the last valid one.
RectInputs ==
    {in \in {<<U32(i), U32(n)>> : i \in 0..(MaxSide * MaxSide + MaxPast - 1),
                                  n \in 0..MaxSide} :
        UVal(in[1]) < UVal(in[2]) * UVal(in[2]) + MaxPast}

\* The state in which display() of icons.c is entered, with icon_id = in.
AtDisplay(in) ==
    /\ example = "icons"
    /\ pc = "display"
    /\ icon_id = in
    /\ should_close = FALSE
    /\ uniform = <<U32(0), U32(0)>>
    /\ vs_tex_coord = <<>>
    /\ contract \in BOOLEAN
    /\ glfw = "on"
    /\ window = "open"
    /\ exit_status = <<>>
    /\ tex_uploads = 1
    /\ buf_uploads = 1
    /\ shaders = {}
    /\ calls = <<"glTexImage2D", "glBufferData">>

InitRect == \E in \in RectInputs : AtDisplay(in)

NextRect == Display

SpecRect == InitRect /\ [][NextRect]_vars

\* The same, with a side just past 2^12 as well: there the indices around
\* 2^24 are valid, and not every one of them is a float.
WideSide == 2^12 + 1
WideInputs ==
    {<<U32(i), U32(WideSide)>> : i \in (2^24 - MaxPast)..(2^24 + MaxPast)}

InitRectWide == \E in \in RectInputs \cup WideInputs : AtDisplay(in)

SpecRectWide == InitRectWide /\ [][NextRect]_vars



\* ------------------------------------------------- vocabulary of the claims

\* A quad has been drawn, with the uniform holding <<index, sideCount>>.
Drawn == vs_tex_coord # <<>>

SideCount == UVal(uniform[2])

\* The index sent to the shader lies in [0, sideCount^2).
ValidIndex == uniform[1][1] < 2^15 /\ UVal(uniform[1]) < SideCount * SideCount

Index == UVal(uniform[1])

\* The rectangle of the quad drawn last: the corners with v_tex = (0,0), (1,1).
DrawnRect ==
    [uMin |-> vs_tex_coord[4][1], vMin |-> vs_tex_coord[4][2],
     uMax |-> vs_tex_coord[2][1], vMax |-> vs_tex_coord[2][2]]

IsPow2(n) == n >= 1 /\ Norm(n, 0)[1] = 1

\* s = 1/sideCount as a float.
SideLen(n) == FDiv(FInt(1), FInt(n))

\* The exact (unrounded) difference a - b of two floats, a >= b.
ExactDiff(a, b) ==
    LET e0 == IF a[2] < b[2] THEN a[2] ELSE b[2]
    IN  Norm(a[1] * 2^(a[2] - e0) - b[1] * 2^(b[2] - e0), e0)

\* b lies exactly d above a.
Above(a, b, d) == FLeq(a, b) /\ ExactDiff(b, a) = d

InUnitSquare(r) ==
    /\ FLeq(FZero, r.uMin) /\ FLess(r.uMin, r.uMax) /\ FLeq(r.uMax, FOne)
    /\ FLeq(FZero, r.vMin) /\ FLess(r.vMin, r.vMax) /\ FLeq(r.vMax, FOne)

\* The four corners the shader produced are those of DrawnRect, in the order
\* of quad_data: (0,1), (1,1), (1,0), (0,0).
CornersOfRect ==
    LET r == DrawnRect
    IN  /\ vs_tex_coord[1] = <<r.uMin, r.vMax>>
        /\ vs_tex_coord[2] = <<r.uMax, r.vMax>>
        /\ vs_tex_coord[3] = <<r.uMax, r.vMin>>
        /\ vs_tex_coord[4] = <<r.uMin, r.vMin>>

RectWithinSquareOfSide(n) ==
    /\ InUnitSquare(DrawnRect)
    /\ ExactDiff(DrawnRect.uMax, DrawnRect.uMin) = SideLen(n)
    /\ ExactDiff(DrawnRect.vMax, DrawnRect.vMin) = SideLen(n)
    /\ CornersOfRect

\* ------------------------------------------------------------------ C1

ValidIndices == 0..(SideCount * SideCount - 1)

InteriorsDisjoint(a, b) ==
    \/ FLeq(a.uMax, b.uMin) \/ FLeq(b.uMax, a.uMin)
    \/ FLeq(a.vMax, b.vMin) \/ FLeq(b.vMax, a.vMin)

\* Every edge of r lies on the border of the unit square or is the opposite
\* edge of another index's rectangle: with disjoint interiors this makes the
\* rectangles tile the square without a gap.
EdgesMatched(r, rects) ==
    /\ r.uMin = FZero
          \/ \E q \in rects : q.uMax = r.uMin /\ q.vMin = r.vMin /\ q.vMax = r.vMax
    /\ r.uMax = FOne
          \/ \E q \in rects : q.uMin = r.uMax /\ q.vMin = r.vMin /\ q.vMax = r.vMax
    /\ r.vMin = FZero
          \/ \E q \in rects : q.vMax = r.vMin /\ q.uMin = r.uMin /\ q.uMax = r.uMax
    /\ r.vMax = FOne
          \/ \E q \in rects : q.vMin = r.vMax /\ q.uMin = r.uMin /\ q.uMax = r.uMax

\* The sideCount^2 valid indices give sideCount^2 different rectangles; the
\* drawn one is that of its index, overlaps none of the others and is joined
\* to them (or to the border) on all four edges.
OneCellOfTheGrid ==
    LET rects == {rectForIndex(SideCount, j, contract) : j \in ValidIndices}
    IN  /\ rectForIndex(SideCount, Index, contract) = DrawnRect
        /\ Cardinality(rects) = SideCount * SideCount
        /\ \A q \in rects \ {DrawnRect} : InteriorsDisjoint(q, DrawnRect)
        /\ EdgesMatched(DrawnRect, rects)

centerOf(r) ==
    <<FDiv(FAdd(r.uMin, r.uMax), FInt(2)), FDiv(FAdd(r.vMin, r.vMax), FInt(2))>>

\* The integer a float with an integral value stands for.
FToInt(a) == a[1] * 2^a[2]

\* indexForPoint(layout, u, v): col = floor(u/s), invRow = floor(v/s),
\* row = sideCount-1-invRow, index = row*sideCount+col.
indexForPoint(n, u, v) ==
    LET s    == SideLen(n)
        c    == FToInt(FFloor(FDiv(u, s)))
        inv  == FToInt(FFloor(FDiv(v, s)))
        r    == n - 1 - inv
    IN  r * n + c

RoundTrip ==
    LET p == centerOf(DrawnRect) IN indexForPoint(SideCount, p[1], p[2]) = Index

SameColumnNextRow ==
    LET q == rectForIndex(SideCount, Index + SideCount, contract)
    IN  q.uMin = DrawnRect.uMin /\ q.uMax = DrawnRect.uMax

HasRowAfter == Index + SideCount < SideCount * SideCount

DrawnWith(index) == Drawn /\ uniform = <<U32(index), U32(4)>>

Quarter == <<1, -2>>
Half == <<1, -1>>
ThreeQuarters == <<3, -2>>

\* C5 as stated: with sideCount = 4, index 0 gives uMin = 0, vMin = 0,
\* uMax = 0.25, vMax = 0.25.
C5_AsStated ==
    DrawnWith(0) =>
        DrawnRect = [uMin |-> FZero, vMin |-> FZero, uMax |-> Quarter, vMax |-> Quarter]

\* C5 (amended): with sideCount = 4, the rectangle for index 0 is exactly
\* uMin = 0, vMin = 0.75, uMax = 0.25, vMax = 1.0 (inverted row 3).
C5_IndexZero ==
    DrawnWith(0) =>
        DrawnRect = [uMin |-> FZero, vMin |-> ThreeQuarters, uMax |-> Quarter, vMax |-> FOne]

C5_Witness == DrawnWith(0) /\ pc = "swap" /\ DrawnRect.vMax = FOne

\* C6 as stated: with sideCount = 4, index 15 gives uMin = 0.75, vMin = 0.75,
\* uMax = 1.0, vMax = 1.0.
C6_AsStated ==
    DrawnWith(15) =>
        DrawnRect = [uMin |-> ThreeQuarters, vMin |-> ThreeQuarters, uMax |-> FOne, vMax |-> FOne]

\* C6 (amended): with sideCount = 4, the rectangle for the last valid index 15
\* is exactly uMin = 0.75, vMin = 0, uMax = 1.0, vMax = 0.25 (inverted row 0).
C6_IndexLast ==
    DrawnWith(15) =>
        DrawnRect = [uMin |-> ThreeQuarters, vMin |-> FZero, uMax |-> FOne, vMax |-> Quarter]

C6_Witness == DrawnWith(15) /\ pc = "swap" /\ DrawnRect.vMin = FZero

\* C7: with sideCount = 4, index 6 decomposes into col = 2, row = 1,
\* invRow = 2, and its rectangle is uMin = 0.5, vMin = 0.5, uMax = 0.75,
\* vMax = 0.75.
C7_IndexSix ==
    DrawnWith(6) =>
        /\ col(uniform) = FInt(2)
        /\ row(uniform) = U32(1)
        /\ invRow(uniform) = U32(2)
        /\ DrawnRect = [uMin |-> Half, vMin |-> Half, uMax |-> ThreeQuarters, vMax |-> ThreeQuarters]

C7_Witness == DrawnWith(6) /\ pc = "swap" /\ DrawnRect.uMin = Half

\* ------------------------------------------------------------------ C8

NotLastOfRow == Index % SideCount < SideCount - 1

\* The rectangle of index + 1 has the drawn rectangle's vMin and vMax, and its
\* uMin and uMax lie exactly s above the drawn rectangle's.
NextInRowShifted ==
    LET q == rectForIndex(SideCount, Index + 1, contract)
        s == SideLen(SideCount)
    IN  /\ q.vMin = DrawnRect.vMin /\ q.vMax = DrawnRect.vMax
        /\ Above(DrawnRect.uMin, q.uMin, s)
        /\ Above(DrawnRect.uMax, q.uMax, s)

C9_OutOfRangeRejected ==
    Drawn => (ValidIndex /\ InUnitSquare(DrawnRect))

\* ------------------------------------------------------------------ C10

Succ32(a, b) ==
    LET lo == (a[2] + 1) % Limb
    IN  b = <<IF lo = 0 THEN (a[1] + 1) % Limb ELSE a[1], lo>>

IsDigit(key) == key \in Char0..Char9

\* C11: a key-press event changes the icon index by exactly one rule: a digit
\* key d sets it to d whatever it was, Right sets it to index + 1, Left sets
\* it to index - 1.
C11_KeyPress ==
    [][\A key \in Keys :
          key_cb(key, GLFW_PRESS) =>
             /\ IsDigit(key) => icon_id'[1] = <<0, key - Char0>>
             /\ key = GLFW_KEY_RIGHT => Succ32(icon_id[1], icon_id'[1])
             /\ key = GLFW_KEY_LEFT => Succ32(icon_id'[1], icon_id[1])]_vars

\* Index 9 was drawn, and key events of the poll that followed made it 3:
\* the digit 3, or six Left presses.
C11_Witness ==
    /\ pc = "poll"
    /\ Drawn /\ uniform[1] = U32(9)
    /\ icon_id[1] = U32(3)

\* C12: the index is a 32-bit unsigned value updated with no bound check:
\* Left at 0 gives 2^32 - 1, Right at 2^32 - 1 gives 0, and Right and Left
\* give (index + 1) mod 2^32 and (index - 1) mod 2^32.
C12_Wraparound ==
    [][/\ key_cb(GLFW_KEY_LEFT, GLFW_PRESS) =>
             /\ icon_id[1] = <<0, 0>> => icon_id'[1] = <<Limb - 1, Limb - 1>>
             /\ Succ32(icon_id'[1], icon_id[1])
       /\ key_cb(GLFW_KEY_RIGHT, GLFW_PRESS) =>
             /\ icon_id[1] = <<Limb - 1, Limb - 1>> => icon_id'[1] = <<0, 0>>
             /\ Succ32(icon_id[1], icon_id'[1])]_vars

\* The index is 2^32 - 1, in a poll that follows the drawing of index 0.
C12_Witness ==
    /\ pc = "poll"
    /\ Drawn /\ uniform[1] = U32(0)
    /\ icon_id[1] = <<Limb - 1, Limb - 1>>

\* C13: the icons-per-side value icon_id[1] of icons.c is 4 in every
\* reachable state; no key event, display() call or loop iteration writes it.
C13_LayoutFixed ==
    /\ icon_id[2] = <<0, 4>>
    /\ Drawn => uniform[2] = <<0, 4>>

\* Digits and arrows have been pressed, frames drawn, and the loop goes on.
C13_Witness ==
    /\ pc = "loop"
    /\ Drawn /\ uniform[1] = U32(7)
    /\ icon_id = <<U32(MaxIndex), U32(4)>>

\* ------------------------------------------------------ startup and exit

\* The failures a program detects, and its uploads, as they appear in calls.
FailureCalls ==
    {"failed: glfwInit", "failed: glfwCreateWindow", "failed: glewInit",
     "failed: compile vertex shader", "failed: compile fragment shader",
     "failed: link", "failed: v_pos", "failed: v_tex", "failed: decode",
     "failed: FT_Init_FreeType", "failed: FT_New_Face", "failed: glyph"}
UploadCalls == {"glTexImage2D", "glBufferData"}

FailureDetected == \E i \in 1..Len(calls) : calls[i] \in FailureCalls

\* main() is in its render loop.
InLoop == pc \in {"loop", "display", "swap", "poll"}

\* C14: after a startup failure is detected (GLFW init, window creation, GLEW
\* init, shader compile, program link, attribute lookup returning -1, image
\* decode error) the program uploads no data and never enters the render
\* loop; it exits.
C14_FailureExits ==
    /\ \A i, j \in 1..Len(calls) :
          (i < j /\ calls[i] \in FailureCalls) => calls[j] \notin UploadCalls
    /\ FailureDetected => ~InLoop

\* C15: the atlas texture and the vertex data of icons.c are uploaded exactly
\* once, in init() before the first display(); no loop iteration and no key
\* event uploads again.
C15_UploadedOnce ==
    /\ (InLoop \/ Drawn) => (tex_uploads = 1 /\ buf_uploads = 1)
    /\ tex_uploads = Count(calls, "glTexImage2D")
    /\ buf_uploads = Count(calls, "glBufferData")
    /\ tex_uploads <= 1 /\ buf_uploads <= 1

\* Frames were drawn and key events handled; the uploads are those of init().
C15_Witness ==
    /\ pc = "loop"
    /\ Drawn /\ uniform[1] = U32(1)
    /\ icon_id[1] = U32(2)
    /\ tex_uploads = 1 /\ buf_uploads = 1

\* The last n calls made.
LastCalls(n) == SubSeq(calls, Len(calls) - n + 1, Len(calls))

\* C16: in the GLFW examples, whenever the process exits after the window was
\* created, the window has been destroyed and then GLFW terminated before
\* exit() is called.
C16_DestroyedAtExit ==
    (pc = "exited" /\ window # "none") =>
        /\ window = "destroyed"
        /\ glfw = "terminated"
        /\ Len(calls) >= 3
        /\ LastCalls(3) = <<"glfwDestroyWindow", "glfwTerminate", "exit">>
        /\ Count(calls, "glfwDestroyWindow") = 1
        /\ Count(calls, "glfwTerminate") = 1

\* font_character.c has left through init_freetype() after a successful
\* init().
C16_Witness ==
    /\ example = "font_character"
    /\ pc = "exited"
    /\ exit_status = <<-1>>
    /\ buf_uploads = 1
    /\ window = "destroyed"

\* ------------------------------------------- the rectangle in the program

C18_SentUnchanged ==
    /\ [][pc = "display" => (uniform' = icon_id /\ icon_id' = icon_id)]_vars
    /\ []((pc = "swap" /\ Drawn) => uniform = icon_id)

\* Index 16 was sent to the shader, and the key events of the poll that
\* followed have taken the index below 0, to 2^32 - 1.
C18_Witness ==
    /\ pc = "poll"
    /\ Drawn /\ uniform = <<U32(16), U32(4)>>
    /\ icon_id[1] = <<Limb - 1, Limb - 1>>

\* a + b modulo 2^32, for two 32-bit values given by their limbs.
Add32(a, b) ==
    LET lo == a[2] + b[2]
    IN  <<(a[1] + b[1] + lo \div Limb) % Limb, lo % Limb>>

\* index div 4 and index mod 4 of the index drawn, from its limbs.
RowOfDrawn == <<uniform[1][1] \div 4, ((uniform[1][1] % 4) * Limb + uniform[1][2]) \div 4>>
ColOfDrawn == uniform[1][2] % 4

\* What C19 says of every index past the last icon, but for the column.
RowInversionUnderflows ==
    /\ Add32(invRow(uniform), RowOfDrawn) = <<0, 3>>
    /\ invRow(uniform)[1] > 0 \/ invRow(uniform)[2] >= 4
    /\ DrawnRect.vMin = FMul(UintToFloat(invRow(uniform)), <<1, -2>>)
    /\ FLeq(FOne, DrawnRect.vMin)
    /\ ~InUnitSquare(DrawnRect)

IndexKey(key) == IsDigit(key) \/ key \in {GLFW_KEY_RIGHT, GLFW_KEY_LEFT}

\* C20: the index changes only on a press of a digit, Right or Left: release
\* and repeat events and presses of any other key leave it unchanged, and an
\* Escape press changes only the should-close flag.
C20_OnlyPresses ==
    [][/\ icon_id' # icon_id =>
             /\ \E key \in Keys : IndexKey(key) /\ key_cb(key, GLFW_PRESS)
             /\ \A key \in Keys, action \in KeyActions :
                    key_cb(key, action) => (action = GLFW_PRESS /\ IndexKey(key))
       /\ key_cb(GLFW_KEY_ESCAPE, GLFW_PRESS) =>
             /\ should_close'
             /\ UNCHANGED <<example, pc, icon_id, uniform, vs_tex_coord,
                            contract, glfw, window, exit_status,
                            tex_uploads, buf_uploads, shaders, calls>>
       /\ should_close' # should_close =>
             \A key \in Keys, action \in KeyActions :
                key_cb(key, action) =>
                   (action = GLFW_PRESS /\ key = GLFW_KEY_ESCAPE)]_vars

\* Escape was pressed in the poll after index 5 was drawn; the index is
\* still 5.
C20_Witness ==
    /\ pc = "poll"
    /\ should_close
    /\ Drawn /\ uniform[1] = U32(5)
    /\ icon_id[1] = U32(5)

\* ------------------------------------------------------------- the main loop

\* C21: each loop iteration of icons.c runs display(), then the buffer swap,
\* then event polling, and key callbacks run only inside event polling; so the
\* index is constant during a display() and the uniform uploaded in a frame
\* is the index left by the key events of the earlier polls (the initial 0
\* for the first frame).
C21_LoopOrder ==
    /\ [][/\ pc = "loop" => pc' \in {"display", "exited"}
          /\ pc = "display" => (pc' = "swap" /\ uniform' = icon_id /\ icon_id' = icon_id)
          /\ pc = "swap" => pc' = "poll"
          /\ pc = "poll" => pc' \in {"poll", "loop"}
          /\ icon_id' # icon_id => (pc = "poll" /\ pc' = "poll")
          /\ uniform' # uniform => pc = "display"
          /\ (~Drawn /\ Drawn') => uniform'[1] = <<0, 0>>]_vars
    /\ [](~Drawn => icon_id[1] = <<0, 0>>)

\* A further frame is about to be drawn with the index 4 that the last poll
\* left; the frame before it was drawn with 2.
C21_Witness ==
    /\ pc = "display"
    /\ Drawn /\ uniform[1] = U32(2)
    /\ icon_id[1] = U32(4)

\* C22: in the GLFW examples, once an Escape press has been delivered in a
\* poll the should-close flag stays set, display() is not called again, and
\* at the next loop-condition check the process leaves the loop and exits
\* with status 0 through shutdown_glfw_and_exit.
C22_EscapeExits ==
    /\ [][should_close =>
             /\ should_close'
             /\ pc' # "display"
             /\ UNCHANGED <<uniform, vs_tex_coord>>
             /\ pc = "loop" => (pc' = "exited" /\ exit_status' = <<0>>)]_vars
    /\ [](should_close => pc \in {"poll", "loop", "exited"})
    /\ []((should_close /\ pc = "exited") =>
             /\ exit_status = <<0>>
             /\ LastCalls(3) = <<"glfwDestroyWindow", "glfwTerminate", "exit">>)

\* minimal_glew_glfw.c has exited with status 0 after an Escape press.
C22_Witness ==
    /\ example = "minimal_glew_glfw"
    /\ should_close
    /\ pc = "exited"
    /\ exit_status = <<0>>

\* The failures that make main() give up before the loop.
StartupFailures ==
    {"failed: glfwInit", "failed: glfwCreateWindow", "failed: glewInit",
     "failed: compile vertex shader", "failed: compile fragment shader",
     "failed: link"}

StartupFailed == \E i \in 1..Len(calls) : calls[i] \in StartupFailures

\* C23: in the GLFW examples, if GLFW initialization, window creation, GLEW
\* initialization or init() (shader compile or program link) fails, the
\* process exits with status -1 and display() is never called; display() is
\* called only after init() has returned true.
C23_StartupFailure ==
    /\ StartupFailed =>
          /\ pc = "exited"
          /\ exit_status = <<-1>>
          /\ vs_tex_coord = <<>> /\ uniform = <<U32(0), U32(0)>>
    /\ (pc \in {"display", "swap", "poll"} \/ Drawn) =>
          /\ Count(calls, "glBufferData") = 1
          /\ ~StartupFailed

\* checkerboard_texture.c has exited because its program did not link.
C23_Witness ==
    /\ example = "checkerboard_texture"
    /\ pc = "exited"
    /\ calls = <<"failed: link", "glfwDestroyWindow", "glfwTerminate", "exit">>

\* init() has been called and has returned.
InitReturned == pc \notin {"glfwInit", "createWindow", "glewInit", "init", "killed"}

\* C24: compile_shader deletes the shader it was given when compilation
\* fails, and after the link step both shaders are detached and deleted
\* whether or not the link succeeded; when init() returns, the undeleted
\* shader objects are none on success and on a vertex-compile or link
\* failure, and exactly the compiled vertex shader when the fragment shader
\* failed to compile.
C24_ShaderCleanup ==
    /\ InitReturned =>
          shaders = IF Count(calls, "failed: compile fragment shader") = 1
                    THEN {"vs"} ELSE {}
    /\ ~InitReturned => shaders = {}

\* init() of minimal_glew_glfw.c has returned false because the fragment
\* shader did not compile; the vertex shader is left.
C24_Witness ==
    /\ example = "minimal_glew_glfw"
    /\ pc = "exited"
    /\ shaders = {"vs"}
    /\ Count(calls, "failed: compile fragment shader") = 1

====
